---------------------------- MODULE Spec2Model ----------------------------
(***************************************************************************)
(* Model of delfos/backend/main.py: the /predictions handler               *)
(* (get_predictions) and its nested resolver get_player_id_fuzzy, which    *)
(* resolves free-text player mentions against the player registry with     *)
(* rapidfuzz's process.extractOne and fuzz.token_sort_ratio.               *)
(*                                                                         *)
(* Text is a sequence of one-character strings.  A DataFrame is a record   *)
(* [cols, rows]: cols the ordered column names, rows a sequence of rows,   *)
(* each row a sequence of cells aligned with cols.  A cell is a record     *)
(* tagged by t: "str" (text), "num" (payload number), "id" (a player_id    *)
(* of the registry), "score" (a similarity score) or "na" (pandas NaN).    *)
(***************************************************************************)
EXTENDS Integers, Sequences, FiniteSets, TLC

\* ------------------------------------------------------------ bounds
MaxLen == 3
MaxRows == 2
MaxRecs == 2
MaxRuns == 2

\* ------------------------------------------------------------ values
\* One letter and the blank: enough for token splitting and reordering, for
\* ties, and for scores on both sides of 80 ("aa" against "aaa" scores 80).
Alphabet == {" ", "a"}

\* Non-empty texts: pd.read_csv reads an empty cell as NaN, never as "".
Strings == UNION {[1..n -> Alphabet] : n \in 1..MaxLen}

NA == [t |-> "na"]
None == [t |-> "none"]
Str(s) == [t |-> "str", v |-> s]
Num(n) == [t |-> "num", v |-> n]
Id(i) == [t |-> "id", v |-> i]

\* Code points of the characters, the order Python's sorted() uses.
Ord(c) == CASE c = " " -> 32 [] c = "a" -> 97 [] c = "n" -> 110

isna(x) == x = NA \/ x = None

\* ------------------------------------------------ rapidfuzz: the scorer
\* str.split(): the maximal runs of non-whitespace characters, in order.
RECURSIVE split_from(_, _, _)
split_from(s, i, cur) ==
    IF i > Len(s)
    THEN IF cur = <<>> THEN <<>> ELSE <<cur>>
    ELSE IF s[i] = " "
         THEN (IF cur = <<>> THEN <<>> ELSE <<cur>>) \o split_from(s, i + 1, <<>>)
         ELSE split_from(s, i + 1, Append(cur, s[i]))

split(s) == split_from(s, 1, <<>>)

\* Lexicographic order on texts by code point (a proper prefix comes first).
RECURSIVE lex_le(_, _)
lex_le(a, b) ==
    IF a = <<>> THEN TRUE
    ELSE IF b = <<>> THEN FALSE
    ELSE IF Ord(Head(a)) < Ord(Head(b)) THEN TRUE
    ELSE IF Ord(Head(a)) > Ord(Head(b)) THEN FALSE
    ELSE lex_le(Tail(a), Tail(b))

RECURSIVE insert_sorted(_, _)
insert_sorted(tok, toks) ==
    IF toks = <<>> THEN <<tok>>
    ELSE IF lex_le(tok, Head(toks)) THEN <<tok>> \o toks
    ELSE <<Head(toks)>> \o insert_sorted(tok, Tail(toks))

RECURSIVE sorted(_)
sorted(toks) ==
    IF toks = <<>> THEN <<>> ELSE insert_sorted(Head(toks), sorted(Tail(toks)))

RECURSIVE join(_)
join(toks) ==
    IF toks = <<>> THEN <<>>
    ELSE IF Len(toks) = 1 THEN Head(toks)
    ELSE Head(toks) \o <<" ">> \o join(Tail(toks))

\* Length of a longest common subsequence.
RECURSIVE lcs(_, _)
lcs(a, b) ==
    IF a = <<>> \/ b = <<>> THEN 0
    ELSE IF Head(a) = Head(b) THEN 1 + lcs(Tail(a), Tail(b))
    ELSE LET x == lcs(Tail(a), b)
             y == lcs(a, Tail(b))
         IN IF x >= y THEN x ELSE y

\* fuzz.ratio: 100 * (1 - indel_distance / (len1 + len2)), kept as the exact
\* fraction n / d; two empty texts score 100.
ratio(s1, s2) ==
    LET lensum == Len(s1) + Len(s2)
        dist == lensum - 2 * lcs(s1, s2)
    IN IF lensum = 0 THEN [n |-> 100, d |-> 1]
       ELSE [n |-> 100 * (lensum - dist), d |-> lensum]

token_sort_ratio(s1, s2) == ratio(join(sorted(split(s1))), join(sorted(split(s2))))

score_gt(x, y) == x.n * y.d > y.n * x.d
score_ge(x, y) == x.n * y.d >= y.n * x.d
score_eq(x, y) == x.n * y.d = y.n * x.d


\* ------------------------------------------- rapidfuzz: process.extractOne
Threshold == 80

Optimal == [n |-> 100, d |-> 1]

\* The strict comparison that lets a later choice replace the current best.
better(score, result) == result = None \/ score_gt(score, result.score)

\* One pass over the choices in iteration order; the scan stops at a score of 100.
\* Returns None when there is no choice, else [match, score, index].
RECURSIVE extractOne_from(_, _, _, _)
extractOne_from(query, choices, i, result) ==
    IF i > Len(choices) THEN result
    ELSE LET score == token_sort_ratio(query, choices[i])
             next == IF better(score, result)
                     THEN [match |-> choices[i], score |-> score, index |-> i - 1]
                     ELSE result
         IN IF score_eq(score, Optimal) THEN next
            ELSE extractOne_from(query, choices, i + 1, next)

extractOne(query, choices) == extractOne_from(query, choices, 1, None)

\* How many times extractOne calls the scorer on these choices.
RECURSIVE scorer_calls(_, _, _)
scorer_calls(query, choices, i) ==
    IF i > Len(choices) THEN 0
    ELSE IF score_eq(token_sort_ratio(query, choices[i]), Optimal) THEN 1
    ELSE 1 + scorer_calls(query, choices, i + 1)

\* ------------------------------------------------------------ DataFrames
col_index(df, col) == CHOOSE j \in 1..Len(df.cols) : df.cols[j] = col
has_col(df, col) == \E j \in 1..Len(df.cols) : df.cols[j] = col
column(df, col) == [i \in 1..Len(df.rows) |-> df.rows[i][col_index(df, col)]]

\* ------------------------------------- the registry: dict(zip(names, ids))
\* A dict is the sequence of its items in insertion order.
\* Faulty variant: the keys iterated last to first.
dict_keys_reversed(d) == [i \in 1..Len(d) |-> d[Len(d) + 1 - i].k]
dict_keys(d) == [i \in 1..Len(d) |-> d[i].k]
dict_has(d, k) == \E i \in 1..Len(d) : d[i].k = k
dict_get(d, k) == d[CHOOSE i \in 1..Len(d) : d[i].k = k].v

\* Faulty variant of d[k] = v: the first value of a key is kept.
dict_setdefault(d, k, v) ==
    IF dict_has(d, k) THEN d ELSE Append(d, [k |-> k, v |-> v])

\* d[k] = v: a new key goes last, an existing key keeps its place and takes v.
dict_set(d, k, v) ==
    IF dict_has(d, k)
    THEN [i \in 1..Len(d) |-> IF d[i].k = k THEN [k |-> k, v |-> v] ELSE d[i]]
    ELSE Append(d, [k |-> k, v |-> v])

RECURSIVE dict_zip_from(_, _, _, _)
dict_zip_from(ks, vs, i, d) ==
    IF i > Len(ks) \/ i > Len(vs) THEN d
    ELSE dict_zip_from(ks, vs, i + 1, dict_set(d, ks[i], vs[i]))

dict_zip(ks, vs) == dict_zip_from(ks, vs, 1, <<>>)

player_name_to_id_of(df_players) ==
    dict_zip(column(df_players, "player_name"), column(df_players, "player_id"))

\* ------------------------------------------------- get_player_id_fuzzy
\* Faulty variant of the threshold test: score > 80.
accepts_above(score) == score_gt(score, [n |-> Threshold, d |-> 1])
accepts(score) == score_ge(score, [n |-> Threshold, d |-> 1])

\* The text the scorer is given for a cell when the null guard is missing.
text_or_nan(name) == IF name.t = "str" THEN name.v ELSE <<"n", "a", "n">>

\* Faulty variant: the resolver without its null guard.
get_player_id_fuzzy_unguarded(name, player_name_to_id) ==
    LET keys == dict_keys(player_name_to_id)
        found == extractOne(text_or_nan(name), [i \in 1..Len(keys) |-> keys[i].v])
        calls == scorer_calls(text_or_nan(name), [i \in 1..Len(keys) |-> keys[i].v], 1)
    IN IF found = None
       THEN [kind |-> "raise", value |-> "TypeError", calls |-> calls]
       ELSE IF accepts(found.score)
            THEN [kind |-> "return", value |-> dict_get(player_name_to_id, Str(found.match)),
                  calls |-> calls]
            ELSE [kind |-> "return", value |-> None, calls |-> calls]

\* The outcome of one call: what it returns or raises, and the scorer calls made.
\* Unpacking extractOne's None (no choice at all) raises TypeError.
get_player_id_fuzzy(name, player_name_to_id) ==
    IF isna(name)
    THEN [kind |-> "return", value |-> None, calls |-> 0]
    ELSE LET keys == dict_keys(player_name_to_id)
             choices == [i \in 1..Len(keys) |-> keys[i].v]
             found == extractOne(name.v, choices)
             calls == scorer_calls(name.v, choices, 1)
         IN IF found = None
            THEN [kind |-> "raise", value |-> "TypeError", calls |-> calls]
            ELSE IF accepts(found.score)
                 THEN [kind |-> "return",
                       value |-> dict_get(player_name_to_id, Str(found.match)),
                       calls |-> calls]
                 ELSE [kind |-> "return", value |-> None, calls |-> calls]

\* --------------------------------------------------------- input universes
\* The registry CSVs over a set of names: columns player_name, player_id, the
\* id of a row being its row number.
RegistryTables(names) ==
    UNION {{[cols |-> <<"player_name", "player_id">>,
             rows |-> [i \in 1..n |-> <<Str(f[i]), Id(i)>>]] : f \in [1..n -> names]} :
           n \in 0..MaxRows}

\* Canonical registry names carry no leading or trailing blank.
RegistryNames == {s \in Strings : s[1] # " " /\ s[Len(s)] # " "}

\* The registry name and the mentions of the batch runs: "aaa" scores exactly
\* 80 against "aa" and "a" scores below 80.
SampleNames == {<<"a", "a">>}
SampleMentions == {NA, Str(<<"a", "a", "a">>), Str(<<"a">>)}

\* The schemas of the day's predictions CSV: the mention column player_ alone,
\* with a payload column, and with a column already named player_id.
Schemas == {<<"player_">>, <<"player_", "prob">>, <<"player_id", "player_">>}

\* The predictions CSVs: every payload cell holds its row number.
PredictionTables ==
    UNION {UNION {{[cols |-> cols,
                    rows |-> [i \in 1..n |->
                                [j \in 1..Len(cols) |->
                                    IF cols[j] = "player_" THEN f[i] ELSE Num(i)]]] :
                   f \in [1..n -> SampleMentions]} :
                  n \in 0..MaxRecs} :
           cols \in Schemas}

\* ------------------------------------------------------------ the files
Dates == {"2024-05-01", "2024-05-02"}

predictions_path(d) == <<"results/predictions_", d, ".csv">>
players_csv_path == <<"delfos/frontend/photos/players_ids.csv">>
\* Faulty variant of the output path: the input batch's own path.
fotos_path_over_input(d) == predictions_path(d)
fotos_path(d) == <<"results/predictions_", d, "_fotos.csv">>

InputPaths == {players_csv_path} \cup {predictions_path(d) : d \in Dates}
Paths == InputPaths \cup {fotos_path(d) : d \in Dates}

Absent == [absent |-> TRUE]

\* Faulty variant: the existence checks left out (read_csv then raises).
exists_unchecked(files, path) == TRUE
exists(files, path) == files[path] # Absent

\* Faulty variant, df.to_csv(path, mode="a"): appends to an existing file.
to_csv_append(files, path, df) ==
    IF files[path] = Absent THEN [files EXCEPT ![path] = df]
    ELSE [files EXCEPT ![path] = [cols |-> df.cols, rows |-> files[path].rows \o df.rows]]

\* df.to_csv(path, index=False): the file is replaced by the frame.
to_csv(files, path, df) == [files EXCEPT ![path] = df]

\* What Series.apply stores for a returned value: None is a missing value.
to_cell(v) == IF v = None THEN NA ELSE v

\* df[col] = vals: an existing column is overwritten in place, a new one goes last.
setitem(df, col, vals) ==
    IF has_col(df, col)
    THEN [cols |-> df.cols,
          rows |-> [i \in 1..Len(df.rows) |->
                      [j \in 1..Len(df.cols) |->
                          IF j = col_index(df, col) THEN vals[i] ELSE df.rows[i][j]]]]
    ELSE [cols |-> Append(df.cols, col),
          rows |-> [i \in 1..Len(df.rows) |-> Append(df.rows[i], vals[i])]]

\* df.to_dict(orient="records"): one ordered (name, value) list per row.
to_dict(df) ==
    [i \in 1..Len(df.rows) |->
        [j \in 1..Len(df.cols) |-> [name |-> df.cols[j], value |-> df.rows[i][j]]]]

\* ------------------------------------------------------ get_predictions
\* A run that raises: nothing is written; log holds the calls made before.
raised(files, what, log) == [status |-> what, body |-> <<>>, files |-> files, log |-> log]

\* The first record whose resolution raises, 0 if none does.
first_raise(outcomes) ==
    IF \E i \in 1..Len(outcomes) : outcomes[i].kind = "raise"
    THEN CHOOSE i \in 1..Len(outcomes) :
            /\ outcomes[i].kind = "raise"
            /\ \A j \in 1..(i - 1) : outcomes[j].kind # "raise"
    ELSE 0

\* The whole handler on the files as they are, for the date the clock gives.
get_predictions(files, d) ==
    IF ~exists(files, predictions_path(d)) THEN raised(files, "HTTP404", <<>>)
    ELSE IF ~exists(files, players_csv_path) THEN raised(files, "HTTP500", <<>>)
    ELSE IF files[predictions_path(d)] = Absent \/ files[players_csv_path] = Absent
    THEN raised(files, "FileNotFoundError", <<>>)
    ELSE LET df_pred == files[predictions_path(d)]
             df_players == files[players_csv_path]
             player_name_to_id == player_name_to_id_of(df_players)
             names == column(df_pred, "player_")
             outcomes == [i \in 1..Len(names) |->
                             get_player_id_fuzzy(names[i], player_name_to_id)]
             k == first_raise(outcomes)
             enriched == setitem(df_pred, "player_id",
                                 [i \in 1..Len(names) |-> to_cell(outcomes[i].value)])
         IN IF k > 0 THEN raised(files, "TypeError", SubSeq(outcomes, 1, k))
            ELSE [status |-> "ok",
                  body |-> to_dict(enriched),
                  files |-> to_csv(files, fotos_path(d), enriched),
                  log |-> outcomes]

\* ------------------------------------------------------------ the state
VARIABLES
    fs,          \* path -> the DataFrame the CSV holds, or Absent
    today,       \* the date datetime.today() gives
    response,    \* what the last /predictions request returned or raised
    runs,        \* /predictions requests served
    repeats,     \* of them, the latest ones in a row that saw the same inputs
    lastInputs,  \* the two input files as the last request found them
    applyLog,    \* the last request's resolver outcomes, one per record tried
    r_name,      \* resolver alone: the mention
    r_registry,  \* resolver alone: the registry CSV
    r_outcome    \* resolver alone: the outcome of the call

vars == <<fs, today, response, runs, repeats, lastInputs, applyLog,
          r_name, r_registry, r_outcome>>

pipeVars == <<fs, today, response, runs, repeats, lastInputs, applyLog>>
resolverVars == <<r_name, r_registry, r_outcome>>

NoResponse == [status |-> "none", body |-> <<>>]
NoRun == [norun |-> TRUE]
Pending == [kind |-> "pending"]

inputs_of(files, d) ==
    [pred |-> files[predictions_path(d)], players |-> files[players_csv_path]]

Init ==
    /\ fs = [p \in Paths |-> Absent]
    /\ today \in Dates
    /\ response = NoResponse
    /\ runs = 0
    /\ repeats = 0
    /\ lastInputs = NoRun
    /\ applyLog = <<>>
    /\ r_name = NA
    /\ r_registry = Absent
    /\ r_outcome = Pending

\* The prediction process delivers the day's batch.
PutPredictions ==
    /\ fs[predictions_path(today)] = Absent
    /\ \E df \in PredictionTables : fs' = [fs EXCEPT ![predictions_path(today)] = df]
    /\ UNCHANGED <<today, response, runs, repeats, lastInputs, applyLog>>
    /\ UNCHANGED resolverVars

\* The registry CSV is installed.
PutPlayers ==
    /\ fs[players_csv_path] = Absent
    /\ \E df \in RegistryTables(SampleNames) : fs' = [fs EXCEPT ![players_csv_path] = df]
    /\ UNCHANGED <<today, response, runs, repeats, lastInputs, applyLog>>
    /\ UNCHANGED resolverVars

\* The registry CSV is removed (to be installed again, possibly changed).
RemovePlayers ==
    /\ fs[players_csv_path] # Absent
    /\ fs' = [fs EXCEPT ![players_csv_path] = Absent]
    /\ UNCHANGED <<today, response, runs, repeats, lastInputs, applyLog>>
    /\ UNCHANGED resolverVars

\* GET /predictions.
GetPredictions ==
    /\ runs < MaxRuns
    /\ LET r == get_predictions(fs, today)
       IN /\ fs' = r.files
          /\ response' = [status |-> r.status, body |-> r.body]
          /\ applyLog' = r.log
    /\ runs' = runs + 1
    /\ lastInputs' = inputs_of(fs, today)
    /\ repeats' = IF lastInputs = inputs_of(fs, today) THEN repeats + 1 ELSE 0
    /\ UNCHANGED today
    /\ UNCHANGED resolverVars

Next == PutPredictions \/ PutPlayers \/ RemovePlayers \/ GetPredictions

Spec == Init /\ [][Next]_vars

\* ---------------------------------------------- the resolver on its own
InitResolver ==
    /\ r_name \in {NA} \cup {Str(s) : s \in Strings}
    /\ r_registry \in RegistryTables(RegistryNames)
    /\ r_outcome = Pending
    /\ fs = [p \in Paths |-> Absent]
    /\ today = CHOOSE d \in Dates : TRUE
    /\ response = NoResponse
    /\ runs = 0
    /\ repeats = 0
    /\ lastInputs = NoRun
    /\ applyLog = <<>>

Resolve ==
    /\ r_outcome = Pending
    /\ r_outcome' = get_player_id_fuzzy(r_name, player_name_to_id_of(r_registry))
    /\ UNCHANGED <<r_name, r_registry>>
    /\ UNCHANGED pipeVars

NextResolver == Resolve

SpecResolver == InitResolver /\ [][NextResolver]_vars

\* ================================================================ claims
\* ---- helpers of the resolver claims
r_n == Len(r_registry.rows)
r_key(i) == r_registry.rows[i][1]
r_score(i) == token_sort_ratio(r_name.v, r_key(i).v)
r_called == r_outcome # Pending /\ ~isna(r_name)
r_resolved == r_outcome # Pending /\ r_outcome.kind = "return" /\ r_outcome.value # None
AtThreshold == [n |-> Threshold, d |-> 1]

\* C1: for a non-null mention the resolver returns an identifier exactly when
\* some candidate scores >= 80 (80 itself included), the identifier is that of
\* a best-scoring candidate, and it returns None when the maximum score is
\* below 80.
C1_ThresholdInclusive ==
    r_called =>
        /\ r_resolved <=> \E i \in 1..r_n : score_ge(r_score(i), AtThreshold)
        /\ r_resolved =>
              \E i \in 1..r_n : /\ r_outcome.value = Id(i)
                                /\ \A j \in 1..r_n : score_ge(r_score(i), r_score(j))
        /\ (r_n > 0 /\ \A i \in 1..r_n : ~score_ge(r_score(i), AtThreshold)) =>
              r_outcome.kind = "return" /\ r_outcome.value = None

\* C1 witness: the maximum score is exactly 80 and an identifier was returned.
C1_Witness ==
    /\ r_called
    /\ r_resolved
    /\ \A j \in 1..r_n : score_ge(AtThreshold, r_score(j))

\* C3: among the candidates tied at the maximum score the resolver selects the
\* one whose name comes first in the registry's row order: no row before the
\* first row of the selected name scores as much, and no row scores more.
C3_FirstOfTiesWins ==
    r_resolved =>
        LET name == r_key(r_outcome.value.v)
            first == CHOOSE j \in 1..r_n :
                        r_key(j) = name /\ \A k \in 1..(j - 1) : r_key(k) # name
        IN \A j \in 1..r_n :
              /\ score_ge(r_score(first), r_score(j))
              /\ j < first => score_gt(r_score(first), r_score(j))

\* C3 witness: two rows with different names tie at the maximum score and the
\* identifier returned is the earlier row's.
C3_Witness ==
    /\ r_resolved
    /\ \E j, k \in 1..r_n :
          /\ j < k /\ r_key(j) # r_key(k)
          /\ score_eq(r_score(j), r_score(k))
          /\ \A m \in 1..r_n : score_ge(r_score(j), r_score(m))
          /\ r_outcome.value = Id(j)

\* C10: the registry built from the rows maps every name to the identifier of
\* the last row that carries it, and a mention resolved to a name receives the
\* identifier of that last row.
C10_LastWriteWins ==
    r_registry # Absent =>
        /\ \A i \in 1..r_n :
              LET last == CHOOSE j \in 1..r_n :
                             r_key(j) = r_key(i) /\ \A k \in (j + 1)..r_n : r_key(k) # r_key(i)
              IN dict_get(player_name_to_id_of(r_registry), r_key(i)) = Id(last)
        /\ r_resolved =>
              \A k \in (r_outcome.value.v + 1)..r_n : r_key(k) # r_key(r_outcome.value.v)

\* C10 witness: a name on two rows, and the mention got the later row's identifier.
C10_Witness ==
    /\ r_resolved
    /\ \E j \in 1..r_n : j < r_outcome.value.v /\ r_key(j) = r_key(r_outcome.value.v)

\* C7: the resolver never raises; an unmatched mention, an empty registry
\* included, yields None as a value.
C7_NeverRaises == r_outcome.kind # "raise"

\* ---- helpers of the batch claims
ran == lastInputs # NoRun
ok == response.status = "ok"
in_pred == lastInputs.pred
artifact == fs[fotos_path(today)]
field(rec, name) == rec[CHOOSE j \in 1..Len(rec) : rec[j].name = name].value
cell(df, i, col) == df.rows[i][col_index(df, col)]

\* C2: every record whose mention is null resolves to None without one call of
\* the scorer, and carries a missing player_id in the enriched batch.
C2_NullMentionUnresolved ==
    /\ \A i \in 1..Len(applyLog) :
          isna(cell(in_pred, i, "player_")) =>
              applyLog[i] = [kind |-> "return", value |-> None, calls |-> 0]
    /\ ok => \A i \in 1..Len(response.body) :
                isna(cell(in_pred, i, "player_")) =>
                    field(response.body[i], "player_id") = NA

\* C2 witness: a run over a batch with a null mention and a mention that was scored.
C2_Witness ==
    /\ ok
    /\ \E i, j \in 1..Len(applyLog) :
          /\ isna(cell(in_pred, i, "player_"))
          /\ applyLog[j].calls > 0

\* C4: a request that finds the day's batch or the registry absent fails with
\* the not-available error (404 for the batch, 500 for the registry; 404 when
\* both are absent) and leaves every file as it was.
C4_MissingInputFails ==
    [][(runs' = runs + 1 /\ (fs[predictions_path(today)] = Absent
                               \/ fs[players_csv_path] = Absent))
        => /\ response'.status =
                 (IF fs[predictions_path(today)] = Absent THEN "HTTP404" ELSE "HTTP500")
           /\ response'.body = <<>>
           /\ fs' = fs]_vars

\* C4 witness: a request failed on the missing registry while an earlier
\* run's artifact is on disk.
C4_Witness ==
    /\ ran /\ response.status = "HTTP500"
    /\ lastInputs.players = Absent
    /\ artifact # Absent

\* C5: for every batch and registry on disk the run yields an enriched batch,
\* returned and persisted, with one record per input record in input order
\* (mention and payload in place), a record resolved to None being kept in its
\* position with a missing player_id.
C5_OneRecordPerMention ==
    (ran /\ lastInputs.pred # Absent /\ lastInputs.players # Absent) =>
        /\ ok
        /\ Len(response.body) = Len(in_pred.rows)
        /\ Len(artifact.rows) = Len(in_pred.rows)
        /\ \A i \in 1..Len(in_pred.rows) :
              /\ \A j \in 1..Len(in_pred.cols) :
                    in_pred.cols[j] # "player_id" =>
                        /\ field(response.body[i], in_pred.cols[j]) = in_pred.rows[i][j]
                        /\ cell(artifact, i, in_pred.cols[j]) = in_pred.rows[i][j]
              /\ applyLog[i].value = None =>
                    /\ field(response.body[i], "player_id") = NA
                    /\ cell(artifact, i, "player_id") = NA

\* C6: every enriched record is its input record, field for field in order,
\* followed by exactly two appended fields (identifier and score).
C6_TwoFieldsAppended ==
    ok =>
        \A i \in 1..Len(response.body) :
            /\ Len(response.body[i]) = Len(in_pred.cols) + 2
            /\ \A j \in 1..Len(in_pred.cols) :
                  response.body[i][j] = [name |-> in_pred.cols[j], value |-> in_pred.rows[i][j]]

\* C8: a request that finds the inputs as the request before it found them
\* returns what that request returned and leaves the persisted artifact as it is.
C8_RerunIdentical ==
    [][(runs' = runs + 1 /\ ran /\ inputs_of(fs, today) = lastInputs)
        => /\ response' = response
           /\ fs'[fotos_path(today)] = fs[fotos_path(today)]]_vars

\* C8 witness: a second successful run over the same non-empty inputs.
C8_Witness ==
    /\ repeats > 0 /\ ok
    /\ Len(response.body) > 0
    /\ artifact = [cols |-> artifact.cols,
                   rows |-> [i \in 1..Len(response.body) |->
                               [j \in 1..Len(response.body[i]) |-> response.body[i][j].value]]]

\* C9: a request changes no file but the enriched artifact of its date, whose
\* key is no input key of any date; the batch and the registry stay as they were.
C9_OnlyEnrichedKeyWritten ==
    [][runs' = runs + 1
        => /\ \A p \in Paths : fs'[p] # fs[p] => p = fotos_path(today)
           /\ \A p \in InputPaths : fs'[p] = fs[p]
           /\ \A d \in Dates : fotos_path(d) \notin InputPaths]_vars

\* C9 witness: a run wrote the artifact and the inputs are what it read.
C9_Witness ==
    /\ ok
    /\ artifact # Absent
    /\ inputs_of(fs, today) = lastInputs
=============================================================================
